---- MODULE Spec2Model ----
(***************************************************************************)
(* Model of func/sequences.py: generators of presynaptic spike sequences   *)
(* and the transforms applied to them.                                     *)
(*                                                                         *)
(* One call of one function is modelled as a frame: fn is the function     *)
(* being run, pc the line it has reached, args its arguments, loc its      *)
(* local variables (fields named as in the source) and ret what the call   *)
(* gave back: nothing yet, a value, or a raised exception.  Random draws   *)
(* of numpy.random are nondeterministic choices from finite sets.  Times  *)
(* are integers; np.inf is the integer Inf, larger than every time.        *)
(***************************************************************************)
EXTENDS Integers, Sequences, FiniteSets, TLC

VARIABLES fn, pc, args, loc, ret

vars == <<fn, pc, args, loc, ret>>

(***************************************************************************)
(* Values                                                                  *)
(***************************************************************************)

\* np.inf: the sentinel of a padded ensemble
Inf == 1000000

IsFinite(x) == x < Inf

\* float addition and subtraction of a finite amount, with inf absorbing
Add(x, y) == IF x >= Inf \/ y >= Inf THEN Inf ELSE x + y

Sub(x, y) == IF x >= Inf THEN Inf ELSE x - y

NoRet == [kind |-> "none"]

Value(v) == [kind |-> "value", val |-> v]

Raise(e) == [kind |-> "raise", exc |-> e]

Returned == ret.kind = "value"

Raised == ret.kind = "raise"

\* the number of columns of a two-dimensional array with at least one row
Width(A) == Len(A[1])

Range(f) == {f[x] : x \in DOMAIN f}

\* a row is sorted ascending
IsSorted(r) == \A a \in 1..Len(r), b \in 1..Len(r) : a < b => r[a] <= r[b]

\* the number of occurrences of x in the row r
Count(r, x) == Cardinality({a \in 1..Len(r) : r[a] = x})

\* two rows hold the same multiset of values
SameBag(r, q) ==
    /\ Len(r) = Len(q)
    /\ \A x \in Range(r) \cup Range(q) : Count(r, x) = Count(q, x)

\* the rows of width w over vals that are padded: sorted, sentinels last
PaddedRows(vals, w) == {r \in [1..w -> vals] : IsSorted(r)}

\* the padded ensembles of n rows and width w
PaddedEnsembles(vals, n, w) == [1..n -> PaddedRows(vals, w)]

(***************************************************************************)
(* ndarray.sort along axis 1                                               *)
(***************************************************************************)

RECURSIVE Insert(_, _)
Insert(x, r) ==
    IF r = <<>> THEN <<x>>
    ELSE IF x <= Head(r) THEN <<x>> \o r
    ELSE <<Head(r)>> \o Insert(x, Tail(r))

\* the sort left out
SortRowMutUnsorted(r) == r

RECURSIVE SortRow(_)
SortRow(r) == IF r = <<>> THEN <<>> ELSE Insert(Head(r), SortRow(Tail(r)))

SortRows(A) == [k \in DOMAIN A |-> SortRow(A[k])]

(***************************************************************************)
(* superimpose(S_1, S_2)                                                   *)
(***************************************************************************)

MaxRows == 1
MaxWidth == 2
MaxTime == 1

TimeVals == (0..MaxTime) \cup {Inf}

SuperInputs ==
    UNION {PaddedEnsembles(TimeVals, n, w) : n \in 1..MaxRows, w \in 0..MaxWidth}

SuperInit ==
    /\ fn = "superimpose"
    /\ pc = "L579"
    /\ args \in {a \in [S_1 : SuperInputs, S_2 : SuperInputs] :
                    Len(a.S_1) = Len(a.S_2)}
    /\ loc = [S |-> <<>>]
    /\ ret = NoRet

\* S = np.full((S_1.shape[0], S_1.shape[1]+S_2.shape[1]), np.inf)
SuperAlloc ==
    /\ fn = "superimpose" /\ pc = "L579"
    /\ loc' = [loc EXCEPT !.S =
                 [k \in 1..Len(args.S_1) |->
                    [c \in 1..(Width(args.S_1) + Width(args.S_2)) |-> Inf]]]
    /\ pc' = "L580"
    /\ UNCHANGED <<fn, args, ret>>

\* S[:, :S_1.shape[1]] = S_1
SuperCopyLeft ==
    /\ fn = "superimpose" /\ pc = "L580"
    /\ loc' = [loc EXCEPT !.S =
                 [k \in DOMAIN loc.S |->
                    [c \in DOMAIN loc.S[k] |->
                       IF c <= Width(args.S_1) THEN args.S_1[k][c]
                       ELSE loc.S[k][c]]]]
    /\ pc' = "L581"
    /\ UNCHANGED <<fn, args, ret>>

\* S[:, S_1.shape[1]:] = S_2
SuperCopyRight ==
    /\ fn = "superimpose" /\ pc = "L581"
    /\ loc' = [loc EXCEPT !.S =
                 [k \in DOMAIN loc.S |->
                    [c \in DOMAIN loc.S[k] |->
                       IF c > Width(args.S_1)
                       THEN args.S_2[k][c - Width(args.S_1)]
                       ELSE loc.S[k][c]]]]
    /\ pc' = "L582"
    /\ UNCHANGED <<fn, args, ret>>

\* S.sort(1)
SuperSort ==
    /\ fn = "superimpose" /\ pc = "L582"
    /\ loc' = [loc EXCEPT !.S = SortRows(loc.S)]
    /\ pc' = "L583"
    /\ UNCHANGED <<fn, args, ret>>

\* return S
SuperReturn ==
    /\ fn = "superimpose" /\ pc = "L583"
    /\ ret' = Value(loc.S)
    /\ pc' = "done"
    /\ UNCHANGED <<fn, args, loc>>

SuperNext ==
    \/ SuperAlloc
    \/ SuperCopyLeft
    \/ SuperCopyRight
    \/ SuperSort
    \/ SuperReturn

SpecSuperimpose == SuperInit /\ [][SuperNext]_vars

\* C3: each row k of superimpose(S_1, S_2) has width width(S_1)+width(S_2)
\* and is the ascending sort of the multiset union of row k of S_1 and row k
\* of S_2 (finite entries kept and sorted, sentinels trailing); no step of the
\* call changes S_1 or S_2.
C3_SuperimposeSortedUnion ==
    /\ [](Returned =>
            /\ Len(ret.val) = Len(args.S_1)
            /\ \A k \in DOMAIN ret.val :
                 /\ Len(ret.val[k]) = Width(args.S_1) + Width(args.S_2)
                 /\ IsSorted(ret.val[k])
                 /\ SameBag(ret.val[k], args.S_1[k] \o args.S_2[k])
                 /\ \A a \in 1..Len(ret.val[k]), b \in 1..Len(ret.val[k]) :
                      (IsFinite(ret.val[k][b]) /\ ~IsFinite(ret.val[k][a]))
                         => b < a)
    /\ [][args' = args]_vars

\* a call has returned the union of rows that each hold a finite entry and a
\* sentinel, where the finite entry of S_2 goes before that of S_1
C3_Witness ==
    /\ fn = "superimpose" /\ Returned
    /\ Width(args.S_1) = 2 /\ Width(args.S_2) = 2
    /\ IsFinite(args.S_1[1][1]) /\ ~IsFinite(args.S_1[1][2])
    /\ IsFinite(args.S_2[1][1]) /\ ~IsFinite(args.S_2[1][2])
    /\ args.S_2[1][1] < args.S_1[1][1]

(***************************************************************************)
(* superimpose applied to the results of superimpose                       *)
(*                                                                         *)
(* A whole call is one operator here: S is allocated full of np.inf, S_1   *)
(* is copied into its left columns and S_2 into its right columns, and the *)
(* rows are sorted.  Five calls are made on three ensembles A, B and C:    *)
(* (A, B), (B, A), (B, C), ((A, B), C) and (A, (B, C)).                    *)
(***************************************************************************)

\* the call without S.sort(1)
SuperimposeMutUnsorted(S_1, S_2) ==
    [k \in 1..Len(S_1) |->
       [c \in 1..(Width(S_1) + Width(S_2)) |->
          IF c <= Width(S_1) THEN S_1[k][c] ELSE S_2[k][c - Width(S_1)]]]

Superimpose(S_1, S_2) ==
    LET full == [k \in 1..Len(S_1) |->
                   [c \in 1..(Width(S_1) + Width(S_2)) |-> Inf]]
        left == [k \in DOMAIN full |->
                   [c \in DOMAIN full[k] |->
                      IF c <= Width(S_1) THEN S_1[k][c] ELSE full[k][c]]]
        both == [k \in DOMAIN left |->
                   [c \in DOMAIN left[k] |->
                      IF c > Width(S_1) THEN S_2[k][c - Width(S_1)]
                      ELSE left[k][c]]]
    IN  SortRows(both)

\* the padded ensembles of at most MaxRows rows that hold at most MaxWidth
\* entries in all
AlgebraInputs ==
    UNION {PaddedEnsembles(TimeVals, n, w) :
             <<n, w>> \in {q \in (1..MaxRows) \X (0..MaxWidth) : q[1] * q[2] <= MaxWidth}}

AlgebraInit ==
    /\ fn = "superimpose"
    /\ pc = "AB"
    /\ args \in {a \in [A : AlgebraInputs, B : AlgebraInputs, C : AlgebraInputs] :
                    Len(a.A) = Len(a.B) /\ Len(a.B) = Len(a.C)}
    /\ loc = [AB |-> <<>>, BA |-> <<>>, BC |-> <<>>, AB_C |-> <<>>, A_BC |-> <<>>]
    /\ ret = NoRet

\* superimpose(A, B)
AlgebraAB ==
    /\ fn = "superimpose" /\ pc = "AB"
    /\ loc' = [loc EXCEPT !.AB = Superimpose(args.A, args.B)]
    /\ pc' = "BA"
    /\ UNCHANGED <<fn, args, ret>>

\* superimpose(B, A)
AlgebraBA ==
    /\ fn = "superimpose" /\ pc = "BA"
    /\ loc' = [loc EXCEPT !.BA = Superimpose(args.B, args.A)]
    /\ pc' = "BC"
    /\ UNCHANGED <<fn, args, ret>>

\* superimpose(B, C)
AlgebraBC ==
    /\ fn = "superimpose" /\ pc = "BC"
    /\ loc' = [loc EXCEPT !.BC = Superimpose(args.B, args.C)]
    /\ pc' = "AB_C"
    /\ UNCHANGED <<fn, args, ret>>

\* superimpose(superimpose(A, B), C)
AlgebraLeft ==
    /\ fn = "superimpose" /\ pc = "AB_C"
    /\ loc' = [loc EXCEPT !.AB_C = Superimpose(loc.AB, args.C)]
    /\ pc' = "A_BC"
    /\ UNCHANGED <<fn, args, ret>>

\* superimpose(A, superimpose(B, C))
AlgebraRight ==
    /\ fn = "superimpose" /\ pc = "A_BC"
    /\ loc' = [loc EXCEPT !.A_BC = Superimpose(args.A, loc.BC)]
    /\ pc' = "done"
    /\ UNCHANGED <<fn, args, ret>>

AlgebraNext ==
    \/ AlgebraAB
    \/ AlgebraBA
    \/ AlgebraBC
    \/ AlgebraLeft
    \/ AlgebraRight

SpecAlgebra == AlgebraInit /\ [][AlgebraNext]_vars

\* C12: for all padded ensembles A, B, C of the same number of rows,
\* superimpose(A, B) equals superimpose(B, A) row for row, and
\* superimpose(superimpose(A, B), C) equals superimpose(A, superimpose(B, C))
\* row for row.
C12_SuperimposeCommAssoc ==
    (fn = "superimpose" /\ pc = "done" /\ "A_BC" \in DOMAIN loc) =>
        /\ Len(loc.AB) = Len(loc.BA)
        /\ \A k \in DOMAIN loc.AB : loc.AB[k] = loc.BA[k]
        /\ Len(loc.AB_C) = Len(loc.A_BC)
        /\ \A k \in DOMAIN loc.AB_C : loc.AB_C[k] = loc.A_BC[k]

\* the five calls are done on three ensembles whose first rows each hold a
\* finite time, that of A after that of B and that of B after that of C or
\* equal to it, with a sentinel in C, so that the concatenations A|B, B|A,
\* AB|C and A|BC all differ before the sort
C12_Witness ==
    /\ fn = "superimpose" /\ pc = "done" /\ "A_BC" \in DOMAIN loc
    /\ Width(args.A) >= 1 /\ Width(args.B) >= 1 /\ Width(args.C) = 2
    /\ IsFinite(args.A[1][1]) /\ IsFinite(args.B[1][1])
    /\ args.B[1][1] < args.A[1][1]
    /\ IsFinite(args.C[1][1]) /\ args.C[1][1] <= args.B[1][1]
    /\ ~IsFinite(args.C[1][2])
    /\ Len(loc.AB_C[1]) = Width(args.A) + Width(args.B) + 2

(***************************************************************************)
(* translate(S, del_t, T1, T2)                                             *)
(***************************************************************************)

MaxPeriod == 3

T1Vals == {0, 2}

\* the ensembles of n rows and width w over vals, in any order
Ensembles(vals, n, w) == [1..n -> [1..w -> vals]]

\* the shift taken as a magnitude
TranslateMutAbs(S, del_t, T1, T2) ==
    LET mag == IF del_t < 0 THEN 0 - del_t ELSE del_t
        S_t == [k \in DOMAIN S |-> [c \in DOMAIN S[k] |-> Sub(S[k][c], mag)]]
    IN  [k \in DOMAIN S |->
           [c \in DOMAIN S[k] |->
              IF S_t[k][c] < T1 THEN Add(S_t[k][c], T2 - T1) ELSE S_t[k][c]]]

\* S_t = np.array(S); S_t -= del_t; S_t[S_t < T1] += (T2 - T1); return S_t
Translate(S, del_t, T1, T2) ==
    LET S_t == [k \in DOMAIN S |-> [c \in DOMAIN S[k] |-> Sub(S[k][c], del_t)]]
    IN  [k \in DOMAIN S |->
           [c \in DOMAIN S[k] |->
              IF S_t[k][c] < T1 THEN Add(S_t[k][c], T2 - T1) ELSE S_t[k][c]]]

TranslateArgs ==
    UNION {
      [S : Ensembles((T1..(T1 + P - 1)) \cup {Inf}, n, w),
       d : 0..P, T1 : {T1}, T2 : {T1 + P}] :
      <<T1, P, n, w>> \in T1Vals \X (0..MaxPeriod) \X (1..MaxRows) \X (1..MaxWidth)}

\* a caller holds S and d and is about to call translate(S, -d, T1, T2)
TranslateInit ==
    /\ fn = "translate"
    /\ pc = "back"
    /\ args \in TranslateArgs
    /\ loc = [S_t |-> <<>>]
    /\ ret = NoRet

\* translate(S, -d, T1, T2)
TranslateBack ==
    /\ fn = "translate" /\ pc = "back"
    /\ loc' = [loc EXCEPT !.S_t = Translate(args.S, 0 - args.d, args.T1, args.T2)]
    /\ pc' = "forth"
    /\ UNCHANGED <<fn, args, ret>>

\* translate(<the result of the first call>, d, T1, T2)
TranslateForth ==
    /\ fn = "translate" /\ pc = "forth"
    /\ ret' = Value(Translate(loc.S_t, args.d, args.T1, args.T2))
    /\ pc' = "done"
    /\ UNCHANGED <<fn, args, loc>>

TranslateNext ==
    \/ TranslateBack
    \/ TranslateForth

SpecTranslate == TranslateInit /\ [][TranslateNext]_vars

\* x and y are equal up to a whole number of periods P
EqualModPeriod(x, y, P) == \E m \in -2..2 : x = y + m * P

\* C4: for S with real entries in [T1, T2) and 0 <= d <= T2-T1,
\* translate(translate(S, -d, T1, T2), d, T1, T2) has the shape of S, each
\* real entry equals the original up to a multiple of the period T2-T1, and
\* an entry is a sentinel exactly where S has one.
C4_TranslateRoundTrip ==
    (fn = "translate" /\ Returned) =>
        /\ DOMAIN ret.val = DOMAIN args.S
        /\ \A k \in DOMAIN args.S :
             /\ DOMAIN ret.val[k] = DOMAIN args.S[k]
             /\ \A c \in DOMAIN args.S[k] :
                  IF IsFinite(args.S[k][c])
                  THEN /\ IsFinite(ret.val[k][c])
                       /\ EqualModPeriod(ret.val[k][c], args.S[k][c],
                                         args.T2 - args.T1)
                  ELSE ret.val[k][c] = Inf

\* a round trip with a non-zero shift has returned, on a row that holds a
\* real entry and a sentinel
C4_Witness ==
    /\ fn = "translate" /\ Returned
    /\ args.d > 0
    /\ \E k \in DOMAIN args.S : \E a, b \in DOMAIN args.S[k] :
         IsFinite(args.S[k][a]) /\ ~IsFinite(args.S[k][b])

(***************************************************************************)
(* jitter_phase(S, stim_s, stim_e, jit_mag)                                *)
(***************************************************************************)

MaxWindow == 3

StimStarts == {0, 2}

JitterArgs ==
    UNION {
      [S : PaddedEnsembles((s0..(s0 + W - 1)) \cup {Inf}, n, w),
       stim_s : {s0}, stim_e : {s0 + W},
       jit_mag : [1..n -> (1 - W)..(W - 1)]] :
      <<s0, W, n, w>> \in StimStarts \X (1..MaxWindow) \X (1..MaxRows) \X (1..MaxWidth)}

JitterInit ==
    /\ fn = "jitter_phase"
    /\ pc = "L682"
    /\ args \in JitterArgs
    /\ loc = [s |-> <<>>]
    /\ ret = NoRet

\* s = np.array(S)
JitterCopy ==
    /\ fn = "jitter_phase" /\ pc = "L682"
    /\ loc' = [loc EXCEPT !.s = args.S]
    /\ pc' = "L683"
    /\ UNCHANGED <<fn, args, ret>>

\* for k, s_k in enumerate(s): if s_k[0] < np.inf: s_k += jit_mag[k]
JitterAdd ==
    /\ fn = "jitter_phase" /\ pc = "L683"
    /\ loc' = [loc EXCEPT !.s =
                 [k \in DOMAIN loc.s |->
                    IF loc.s[k][1] < Inf
                    THEN [c \in DOMAIN loc.s[k] |-> Add(loc.s[k][c], args.jit_mag[k])]
                    ELSE loc.s[k]]]
    /\ pc' = "L686"
    /\ UNCHANGED <<fn, args, ret>>

\* s[s > stim_e] -= (stim_e - stim_s)
JitterWrapDown ==
    /\ fn = "jitter_phase" /\ pc = "L686"
    /\ loc' = [loc EXCEPT !.s =
                 [k \in DOMAIN loc.s |->
                    [c \in DOMAIN loc.s[k] |->
                       IF loc.s[k][c] > args.stim_e
                       THEN Sub(loc.s[k][c], args.stim_e - args.stim_s)
                       ELSE loc.s[k][c]]]]
    /\ pc' = "L687"
    /\ UNCHANGED <<fn, args, ret>>

\* s[s < stim_s] += (stim_e - stim_s)
JitterWrapUp ==
    /\ fn = "jitter_phase" /\ pc = "L687"
    /\ loc' = [loc EXCEPT !.s =
                 [k \in DOMAIN loc.s |->
                    [c \in DOMAIN loc.s[k] |->
                       IF loc.s[k][c] < args.stim_s
                       THEN Add(loc.s[k][c], args.stim_e - args.stim_s)
                       ELSE loc.s[k][c]]]]
    /\ pc' = "L688"
    /\ UNCHANGED <<fn, args, ret>>

\* return s
JitterReturn ==
    /\ fn = "jitter_phase" /\ pc = "L688"
    /\ ret' = Value(loc.s)
    /\ pc' = "done"
    /\ UNCHANGED <<fn, args, loc>>

JitterNext ==
    \/ JitterCopy
    \/ JitterAdd
    \/ JitterWrapDown
    \/ JitterWrapUp
    \/ JitterReturn

SpecJitter == JitterInit /\ [][JitterNext]_vars

\* C5: for S with real entries in [stim_s, stim_e) and |jit_mag[k]| <
\* stim_e - stim_s, every finite entry of jitter_phase(S, stim_s, stim_e,
\* jit_mag) lies in the half-open window [stim_s, stim_e).
C5_JitterInWindow ==
    (fn = "jitter_phase" /\ Returned) =>
        \A k \in DOMAIN ret.val : \A c \in DOMAIN ret.val[k] :
            IsFinite(ret.val[k][c]) =>
                (args.stim_s <= ret.val[k][c] /\ ret.val[k][c] < args.stim_e)

(***************************************************************************)
(* assign_labels(p)                                                        *)
(***************************************************************************)

MaxLabels == 4

\* the orders np.random.shuffle may not leave: indices drawn with repeats
ShufflesMutRepeats(p) == [1..p -> 0..(p - 1)]

\* np.random.shuffle(np.arange(p)): every order of 0..p-1
Shuffles(p) ==
    {f \in [1..p -> 0..(p - 1)] : \A a, b \in 1..p : a # b => f[a] # f[b]}

LabelsInit ==
    /\ fn = "assign_labels"
    /\ pc = "L588"
    /\ args \in [p : 0..MaxLabels]
    /\ loc = [L |-> <<>>, rand_inds |-> <<>>]
    /\ ret = NoRet

\* L = np.ones(p)
LabelsOnes ==
    /\ fn = "assign_labels" /\ pc = "L588"
    /\ loc' = [loc EXCEPT !.L = [a \in 1..args.p |-> 1]]
    /\ pc' = "L589"
    /\ UNCHANGED <<fn, args, ret>>

\* rand_inds = np.arange(p); np.random.shuffle(rand_inds)
LabelsShuffle ==
    /\ fn = "assign_labels" /\ pc = "L589"
    /\ \E f \in Shuffles(args.p) : loc' = [loc EXCEPT !.rand_inds = f]
    /\ pc' = "L591"
    /\ UNCHANGED <<fn, args, ret>>

\* L[rand_inds[:p//2]] = -1
LabelsAssign ==
    /\ fn = "assign_labels" /\ pc = "L591"
    /\ loc' = [loc EXCEPT !.L =
                 [a \in 1..args.p |->
                    IF \E q \in 1..(args.p \div 2) : loc.rand_inds[q] = a - 1
                    THEN -1 ELSE loc.L[a]]]
    /\ pc' = "L592"
    /\ UNCHANGED <<fn, args, ret>>

\* return L
LabelsReturn ==
    /\ fn = "assign_labels" /\ pc = "L592"
    /\ ret' = Value(loc.L)
    /\ pc' = "done"
    /\ UNCHANGED <<fn, args, loc>>

LabelsNext ==
    \/ LabelsOnes
    \/ LabelsShuffle
    \/ LabelsAssign
    \/ LabelsReturn

SpecLabels == LabelsInit /\ [][LabelsNext]_vars

\* C10: for even p and every outcome of the shuffle, assign_labels(p) returns
\* a vector of length p of +1 and -1 entries, exactly p/2 of each.
C10_LabelsBalanced ==
    (fn = "assign_labels" /\ Returned /\ args.p % 2 = 0) =>
        /\ Len(ret.val) = args.p
        /\ \A a \in 1..Len(ret.val) : ret.val[a] \in {1, -1}
        /\ 2 * Count(ret.val, 1) = args.p
        /\ 2 * Count(ret.val, -1) = args.p

\* a call with p = 4 has returned labels that are not in index order
C10_Witness ==
    /\ fn = "assign_labels" /\ Returned /\ args.p = 4
    /\ ret.val[1] = 1 /\ ret.val[2] = -1 /\ ret.val[3] = 1 /\ ret.val[4] = -1

(***************************************************************************)
(* sparse_rates and build_seqs: the draws of the pattern builders          *)
(***************************************************************************)

\* a rate vector of n synapses of sparse_rates: each synapse silent (0) or
\* active (1, in units of 1e-3*r_max)
RateVectors(n) == [1..n -> {0, 1}]

\* sparse_rates(p, N_e, N_i, mu, r_max): p vectors of N_e and of N_i rates
SparseRates(p, N_e, N_i) ==
    [rates_e : [1..p -> RateVectors(N_e)], rates_i : [1..p -> RateVectors(N_i)]]

\* T0 + (T-T0)*np.random.rand(): rand drawn from {0, 1/2}
UniformTimes(T0, T) == {T0, T0 + (T - T0) \div 2}

\* T0 + (T-T0)*np.random.rand(N, n): N rows of n event times
EventRows(N, n, T0, T) == [1..N -> [1..n -> UniformTimes(T0, T)]]

\* build_seqs(p, N_e, N_i, T0, T, n): p arrays of N_e and of N_i rows
BuildSeqs(p, N_e, N_i, T0, T, n) ==
    [S_e : [1..p -> EventRows(N_e, n, T0, T)],
     S_i : [1..p -> EventRows(N_i, n, T0, T)]]

\* int(num**0.5)
IntSqrt(num) == CHOOSE q \in 0..num : q * q <= num /\ num < (q + 1) * (q + 1)

(***************************************************************************)
(* assoc_rates(num, N_e, N_i, r_mean, r_max) and                           *)
(* assoc_seqs(num, N_e, N_i, T0, T, n)                                     *)
(***************************************************************************)

MaxFeatures == 2
MaxNe == 2
MaxNi == 1

AssocArgs ==
    [num : 1..(MaxFeatures * MaxFeatures), N_e : 0..MaxNe, N_i : 0..MaxNi,
     T0 : {0}, T : {2}, n : {1}]

AssocInit ==
    /\ fn \in {"assoc_rates", "assoc_seqs"}
    /\ pc = "setup"
    /\ args \in AssocArgs
    /\ loc = [p |-> 0, n_e1 |-> 0, n_i1 |-> 0, n_e2 |-> 0, n_i2 |-> 0,
              e1 |-> <<>>, i1 |-> <<>>, e2 |-> <<>>, i2 |-> <<>>,
              j |-> 0, k |-> 0, out_e |-> <<>>, out_i |-> <<>>]
    /\ ret = NoRet

\* p = int(num**0.5); n_e1 = int(N_e/2); n_i1 = int(N_i/2);
\* n_e2 = N_e - n_e1; n_i2 = N_i - n_i1
AssocSetup ==
    /\ fn \in {"assoc_rates", "assoc_seqs"} /\ pc = "setup"
    /\ loc' = [loc EXCEPT !.p = IntSqrt(args.num),
                          !.n_e1 = args.N_e \div 2,
                          !.n_i1 = args.N_i \div 2,
                          !.n_e2 = args.N_e - args.N_e \div 2,
                          !.n_i2 = args.N_i - args.N_i \div 2]
    /\ pc' = "draw1"
    /\ UNCHANGED <<fn, args, ret>>

\* the draw of one half: sparse_rates or build_seqs over n_e and n_i synapses
AssocDraw(n_e, n_i) ==
    IF fn = "assoc_rates"
    THEN {[e |-> d.rates_e, i |-> d.rates_i] : d \in SparseRates(loc.p, n_e, n_i)}
    ELSE {[e |-> d.S_e, i |-> d.S_i] :
             d \in BuildSeqs(loc.p, n_e, n_i, args.T0, args.T, args.n)}

\* re1, ri1 = sparse_rates(p, n_e1, n_i1, ...) / se1, si1 = build_seqs(...)
AssocDrawFirst ==
    /\ fn \in {"assoc_rates", "assoc_seqs"} /\ pc = "draw1"
    /\ \E d \in AssocDraw(loc.n_e1, loc.n_i1) :
          loc' = [loc EXCEPT !.e1 = d.e, !.i1 = d.i]
    /\ pc' = "draw2"
    /\ UNCHANGED <<fn, args, ret>>

\* re2, ri2 = sparse_rates(p, n_e2, n_i2, ...) / se2, si2 = build_seqs(...)
AssocDrawSecond ==
    /\ fn \in {"assoc_rates", "assoc_seqs"} /\ pc = "draw2"
    /\ \E d \in AssocDraw(loc.n_e2, loc.n_i2) :
          loc' = [loc EXCEPT !.e2 = d.e, !.i2 = d.i]
    /\ pc' = "loop"
    /\ UNCHANGED <<fn, args, ret>>

\* the halves stacked the wrong way round: feature k first, feature j second
AssocStackMutSwapped(first, second, j, k) == first[k + 1] \o second[j + 1]

\* np.hstack((re1[j], re2[k])) / np.vstack((se1[j], se2[k]))
AssocStack(first, second, j, k) == first[j + 1] \o second[k + 1]

\* the body of: for j in range(p): for k in range(p): ... append
AssocLoop ==
    /\ fn \in {"assoc_rates", "assoc_seqs"} /\ pc = "loop"
    /\ loc.j < loc.p
    /\ loc' = [loc EXCEPT
                 !.out_e = Append(loc.out_e, AssocStack(loc.e1, loc.e2, loc.j, loc.k)),
                 !.out_i = Append(loc.out_i, AssocStack(loc.i1, loc.i2, loc.j, loc.k)),
                 !.k = IF loc.k + 1 < loc.p THEN loc.k + 1 ELSE 0,
                 !.j = IF loc.k + 1 < loc.p THEN loc.j ELSE loc.j + 1]
    /\ UNCHANGED <<fn, pc, args, ret>>

\* return rates_e, rates_i / return S_e, S_i
AssocReturn ==
    /\ fn \in {"assoc_rates", "assoc_seqs"} /\ pc = "loop"
    /\ loc.j >= loc.p
    /\ ret' = Value([e |-> loc.out_e, i |-> loc.out_i])
    /\ pc' = "done"
    /\ UNCHANGED <<fn, args, loc>>

AssocNext ==
    \/ AssocSetup
    \/ AssocDrawFirst
    \/ AssocDrawSecond
    \/ AssocLoop
    \/ AssocReturn

SpecAssoc == AssocInit /\ [][AssocNext]_vars

\* the first n entries (rates, or rows of event times) of a pattern
FirstPart(x, n) == SubSeq(x, 1, n)

\* the entries of a pattern after the first n
SecondPart(x, n) == SubSeq(x, n + 1, Len(x))

\* C9: for num = p*p, assoc_rates and assoc_seqs return p*p patterns; the
\* pattern at index j*p+k is feature j over the first half (floor(N_e/2) E,
\* floor(N_i/2) I synapses) followed by feature k over the second half, so it
\* covers N_e and N_i synapses, patterns with the same j share their first
\* half and patterns with the same k share their second half.
C9_AssocCartesian ==
    (fn \in {"assoc_rates", "assoc_seqs"} /\ Returned
       /\ \E q \in 1..MaxFeatures : args.num = q * q) =>
        LET q  == CHOOSE q \in 1..MaxFeatures : args.num = q * q
            he == args.N_e \div 2
            hi == args.N_i \div 2
            E(j, k) == ret.val.e[j * q + k + 1]
            I(j, k) == ret.val.i[j * q + k + 1]
        IN  /\ Len(ret.val.e) = q * q
            /\ Len(ret.val.i) = q * q
            /\ \A j \in 0..(q - 1), k \in 0..(q - 1) :
                 /\ Len(E(j, k)) = args.N_e
                 /\ Len(I(j, k)) = args.N_i
                 /\ FirstPart(E(j, k), he) = loc.e1[j + 1]
                 /\ SecondPart(E(j, k), he) = loc.e2[k + 1]
                 /\ FirstPart(I(j, k), hi) = loc.i1[j + 1]
                 /\ SecondPart(I(j, k), hi) = loc.i2[k + 1]
                 /\ \A m \in 0..(q - 1) :
                      /\ FirstPart(E(j, k), he) = FirstPart(E(j, m), he)
                      /\ FirstPart(I(j, k), hi) = FirstPart(I(j, m), hi)
                      /\ SecondPart(E(j, k), he) = SecondPart(E(m, k), he)
                      /\ SecondPart(I(j, k), hi) = SecondPart(I(m, k), hi)

\* a call with two features per half has returned four patterns, where the
\* two features of the first half differ and so do those of the second
C9_Witness ==
    /\ fn \in {"assoc_rates", "assoc_seqs"} /\ Returned
    /\ args.num = 4 /\ args.N_e = 2 /\ args.N_i = 1
    /\ loc.e1[1] # loc.e1[2]
    /\ loc.e2[1] # loc.e2[2]
    /\ loc.i2[1] # loc.i2[2]

(***************************************************************************)
(* assoc_rates_time_squence(p, N_e, N_i, r_mean, r_max) and                *)
(* assoc_seqs_time_sequence(p, N_e, N_i, T0, T, n, deltaT)                 *)
(***************************************************************************)

MaxGroups == 2
MaxNeSeq == 3
MaxNiSeq == 2

\* deltaT = 20, the default of assoc_seqs_time_sequence
DeltaT == 20

RECURSIVE ConcatAll(_)
ConcatAll(ss) == IF ss = <<>> THEN <<>> ELSE Head(ss) \o ConcatAll(Tail(ss))

\* np.hstack of a list of arrays whose first axis has the same length: the
\* arrays joined along their second axis
Hstack(list) ==
    [m \in 1..Len(list[1]) |-> ConcatAll([j \in 1..Len(list) |-> list[j][m]])]

RECURSIVE Factorial(_)
Factorial(n) == IF n <= 0 THEN 1 ELSE n * Factorial(n - 1)

\* the tuple a comes before the tuple b in lexicographic order
LexLess(a, b) ==
    \E x \in 1..Len(a) : a[x] < b[x] /\ \A y \in 1..(x - 1) : a[y] = b[y]

\* list(permutations(np.arange(p))): the orders of 0..p-1, lexicographically
PermutationList(p) ==
    LET all == Shuffles(p)
    IN  [r \in 1..Cardinality(all) |->
           CHOOSE q \in all : Cardinality({x \in all : LexLess(x, q)}) = r - 1]

\* the branch taken by: if (N - len <= p) and (N - len > 0): ... elif
\* N - len > p: raise ValueError ... else: pass
RemainderBranch(N, len, p) ==
    IF N - len <= p /\ N - len > 0 THEN "pad"
    ELSE IF N - len > p THEN "raise"
    ELSE "pass"

TimeSeqArgs ==
    [p : 1..MaxGroups, N_e : 0..MaxNeSeq, N_i : 0..MaxNiSeq,
     T0 : {0}, T : {2}, n : {1}]

TimeSeqInit ==
    /\ fn \in {"assoc_rates_time_squence", "assoc_seqs_time_sequence"}
    /\ pc = "setup"
    /\ args \in TimeSeqArgs
    /\ loc = [n_e1 |-> 0, n_i1 |-> 0, num |-> 0, permutation_label |-> <<>>,
              j |-> 0, i |-> 0, e |-> <<>>, i_ |-> <<>>,
              out_e |-> <<>>, out_i |-> <<>>]
    /\ ret = NoRet

\* ---- assoc_rates_time_squence ----

\* n_e1 = int(N_e/p); n_i1 = int(N_i/p); re = []; ri = []
RatesSeqSetup ==
    /\ fn = "assoc_rates_time_squence" /\ pc = "setup"
    /\ loc' = [loc EXCEPT !.n_e1 = args.N_e \div args.p,
                          !.n_i1 = args.N_i \div args.p]
    /\ pc' = "L467"
    /\ UNCHANGED <<fn, args, ret>>

\* for j in range(p): re1, ri1 = sparse_rates(p, n_e1, n_i1, ...);
\* re.append(re1); ri.append(ri1)
RatesSeqDraw ==
    /\ fn = "assoc_rates_time_squence" /\ pc = "L467"
    /\ loc.j < args.p
    /\ \E d \in SparseRates(args.p, loc.n_e1, loc.n_i1) :
          loc' = [loc EXCEPT !.e = Append(loc.e, d.rates_e),
                             !.i_ = Append(loc.i_, d.rates_i),
                             !.j = loc.j + 1]
    /\ UNCHANGED <<fn, pc, args, ret>>

\* re = np.hstack(re); ri = np.hstack(ri)
RatesSeqHstack ==
    /\ fn = "assoc_rates_time_squence" /\ pc = "L467"
    /\ loc.j >= args.p
    /\ loc' = [loc EXCEPT !.e = Hstack(loc.e), !.i_ = Hstack(loc.i_)]
    /\ pc' = "L473"
    /\ UNCHANGED <<fn, args, ret>>

\* the check of N_e (lines 473-480) or of N_i (lines 482-489): on the "pad"
\* branch np.append(re[j], 0.0) builds a new array that is dropped, so re
\* stays as it is
RatesSeqCheck(N, arr, next) ==
    CASE RemainderBranch(N, Len(arr[1]), args.p) = "raise" ->
            /\ ret' = Raise("ValueError")
            /\ pc' = "done"
            /\ UNCHANGED <<fn, args, loc>>
      [] OTHER ->
            /\ pc' = next
            /\ UNCHANGED <<fn, args, loc, ret>>

RatesSeqCheckE ==
    /\ fn = "assoc_rates_time_squence" /\ pc = "L473"
    /\ RatesSeqCheck(args.N_e, loc.e, "L482")

RatesSeqCheckI ==
    /\ fn = "assoc_rates_time_squence" /\ pc = "L482"
    /\ RatesSeqCheck(args.N_i, loc.i_, "L491")

\* label = np.arange(p); num = len(list(permutations(label)))
RatesSeqCount ==
    /\ fn = "assoc_rates_time_squence" /\ pc = "L491"
    /\ loc' = [loc EXCEPT !.num = Len(PermutationList(args.p)), !.j = 0]
    /\ pc' = "L494"
    /\ UNCHANGED <<fn, args, ret>>

\* for j in range(num): rates_e.append(re[0]); rates_i.append(ri[0])
RatesSeqAppend ==
    /\ fn = "assoc_rates_time_squence" /\ pc = "L494"
    /\ loc.j < loc.num
    /\ loc' = [loc EXCEPT !.out_e = Append(loc.out_e, loc.e[1]),
                          !.out_i = Append(loc.out_i, loc.i_[1]),
                          !.j = loc.j + 1]
    /\ UNCHANGED <<fn, pc, args, ret>>

\* return rates_e, rates_i
RatesSeqReturn ==
    /\ fn = "assoc_rates_time_squence" /\ pc = "L494"
    /\ loc.j >= loc.num
    /\ ret' = Value([e |-> loc.out_e, i |-> loc.out_i])
    /\ pc' = "done"
    /\ UNCHANGED <<fn, args, loc>>

\* ---- assoc_seqs_time_sequence ----

\* label = np.arange(p); num = len(list(permutations(label)));
\* n_e1 = int(N_e/p); n_i1 = int(N_i/p);
\* permutation_label = list(permutations(label))
SeqsSeqSetup ==
    /\ fn = "assoc_seqs_time_sequence" /\ pc = "setup"
    /\ loc' = [loc EXCEPT !.n_e1 = args.N_e \div args.p,
                          !.n_i1 = args.N_i \div args.p,
                          !.num = Len(PermutationList(args.p)),
                          !.permutation_label = PermutationList(args.p)]
    /\ pc' = "L529"
    /\ UNCHANGED <<fn, args, ret>>

\* for j, order in enumerate(permutation_label): se = []; si = []
SeqsSeqOrder ==
    /\ fn = "assoc_seqs_time_sequence" /\ pc = "L529"
    /\ loc.j < Len(loc.permutation_label)
    /\ loc' = [loc EXCEPT !.e = <<>>, !.i_ = <<>>, !.i = 0]
    /\ pc' = "L532"
    /\ UNCHANGED <<fn, args, ret>>

\* for i in range(p): se1, si1 = build_seqs(p, n_e1, n_i1,
\* T0+deltaT*order[i], T + deltaT*order[i], n); se.append(se1); si.append(si1)
SeqsSeqDraw ==
    /\ fn = "assoc_seqs_time_sequence" /\ pc = "L532"
    /\ loc.i < args.p
    /\ LET order == loc.permutation_label[loc.j + 1]
           shift == DeltaT * order[loc.i + 1]
       IN  \E d \in BuildSeqs(args.p, loc.n_e1, loc.n_i1,
                              args.T0 + shift, args.T + shift, args.n) :
              loc' = [loc EXCEPT !.e = Append(loc.e, d.S_e),
                                 !.i_ = Append(loc.i_, d.S_i),
                                 !.i = loc.i + 1]
    /\ UNCHANGED <<fn, pc, args, ret>>

\* se = np.hstack(se); si = np.hstack(si)
SeqsSeqHstack ==
    /\ fn = "assoc_seqs_time_sequence" /\ pc = "L532"
    /\ loc.i >= args.p
    /\ loc' = [loc EXCEPT !.e = Hstack(loc.e), !.i_ = Hstack(loc.i_)]
    /\ pc' = "L539"
    /\ UNCHANGED <<fn, args, ret>>

\* the check of N_e (lines 539-546) or of N_i (lines 548-555): on the "pad"
\* branch se[j].append(np.asarray([])) is called on an ndarray, which has no
\* attribute append
SeqsSeqCheck(N, arr, next) ==
    CASE RemainderBranch(N, Len(arr[1]), args.p) = "raise" ->
            /\ ret' = Raise("ValueError")
            /\ pc' = "done"
            /\ UNCHANGED <<fn, args, loc>>
      [] RemainderBranch(N, Len(arr[1]), args.p) = "pad" ->
            /\ ret' = Raise("AttributeError")
            /\ pc' = "done"
            /\ UNCHANGED <<fn, args, loc>>
      [] OTHER ->
            /\ pc' = next
            /\ UNCHANGED <<fn, args, loc, ret>>

SeqsSeqCheckE ==
    /\ fn = "assoc_seqs_time_sequence" /\ pc = "L539"
    /\ SeqsSeqCheck(args.N_e, loc.e, "L548")

SeqsSeqCheckI ==
    /\ fn = "assoc_seqs_time_sequence" /\ pc = "L548"
    /\ SeqsSeqCheck(args.N_i, loc.i_, "L556")

\* for i in range(len(se[0])): s_e.append(np.asarray([]));
\*     for k in order: s_e[i] = np.append(s_e[i], se[k][i])
InOrder(arr, order) ==
    [i \in 1..Len(arr[1]) |->
       ConcatAll([q \in 1..Len(order) |-> arr[order[q] + 1][i]])]

\* lines 556-568: s_e and s_i are built and appended to S_e and S_i
SeqsSeqAppend ==
    /\ fn = "assoc_seqs_time_sequence" /\ pc = "L556"
    /\ LET order == loc.permutation_label[loc.j + 1]
       IN  loc' = [loc EXCEPT !.out_e = Append(loc.out_e, InOrder(loc.e, order)),
                              !.out_i = Append(loc.out_i, InOrder(loc.i_, order)),
                              !.j = loc.j + 1]
    /\ pc' = "L529"
    /\ UNCHANGED <<fn, args, ret>>

\* return S_e, S_i
SeqsSeqReturn ==
    /\ fn = "assoc_seqs_time_sequence" /\ pc = "L529"
    /\ loc.j >= Len(loc.permutation_label)
    /\ ret' = Value([e |-> loc.out_e, i |-> loc.out_i])
    /\ pc' = "done"
    /\ UNCHANGED <<fn, args, loc>>

TimeSeqNext ==
    \/ RatesSeqSetup
    \/ RatesSeqDraw
    \/ RatesSeqHstack
    \/ RatesSeqCheckE
    \/ RatesSeqCheckI
    \/ RatesSeqCount
    \/ RatesSeqAppend
    \/ RatesSeqReturn
    \/ SeqsSeqSetup
    \/ SeqsSeqOrder
    \/ SeqsSeqDraw
    \/ SeqsSeqHstack
    \/ SeqsSeqCheckE
    \/ SeqsSeqCheckI
    \/ SeqsSeqAppend
    \/ SeqsSeqReturn

SpecTimeSeq == TimeSeqInit /\ [][TimeSeqNext]_vars

TimeSeqDone ==
    fn \in {"assoc_rates_time_squence", "assoc_seqs_time_sequence"} /\ pc = "done"

\* the synapses left over after forming p equal groups: N - p*floor(N/p)
Remainder(N, p) == N - p * (N \div p)

\* C6: for p >= 1 and N_e, N_i >= 0 both time-sequence builders end either by
\* raising ValueError, which they do exactly when the remainder of N_e or of
\* N_i is greater than p, or by returning exactly p! patterns.
C6_TimeSeqCountAndError ==
    TimeSeqDone =>
        IF Remainder(args.N_e, args.p) > args.p \/ Remainder(args.N_i, args.p) > args.p
        THEN Raised /\ ret.exc = "ValueError"
        ELSE /\ Returned
             /\ Len(ret.val.e) = Factorial(args.p)
             /\ Len(ret.val.i) = Factorial(args.p)

\* C7: when N_e or N_i is not a multiple of p (the remainder is then at most
\* p), both time-sequence builders return without an exception and every
\* returned pattern covers exactly N_e excitatory and N_i inhibitory synapses.
C7_TimeSeqPadsRemainder ==
    (TimeSeqDone
       /\ (Remainder(args.N_e, args.p) >= 1 \/ Remainder(args.N_i, args.p) >= 1)
       /\ Remainder(args.N_e, args.p) <= args.p
       /\ Remainder(args.N_i, args.p) <= args.p) =>
        /\ Returned
        /\ \A x \in 1..Len(ret.val.e) : Len(ret.val.e[x]) = args.N_e
        /\ \A x \in 1..Len(ret.val.i) : Len(ret.val.i[x]) = args.N_i

(***************************************************************************)
(* gen_poisson_spikes(FR, t_win, dt, tstop), build_rate_seq(rates, T0, T)  *)
(* and build_rate_seq_modulated(rates, T0, T, mod_freq, mod_list, t_win)   *)
(***************************************************************************)

MaxSynapses == 2
MaxDraws == 4
MaxRates == 3

\* the values np.random.exponential may give (ms); 0.0 is one of them
Gaps == {0, 7, 12}

\* the rates of a synapse: silent or firing
RateVals == {0, 1}

\* len(np.arange(start, stop, step)) for step > 0
ArangeLen(start, stop, step) ==
    IF stop <= start THEN 0 ELSE (stop - start + step - 1) \div step

\* np.arange(start, stop, step)
Arange(start, stop, step) ==
    [k \in 1..ArangeLen(start, stop, step) |-> start + (k - 1) * step]

\* sum(spike_times)
RECURSIVE SumSeq(_)
SumSeq(s) == IF s = <<>> THEN 0 ELSE Add(Head(s), SumSeq(Tail(s)))

\* the running sums left out: the gaps themselves
CumSumMutGaps(s) == s

\* np.cumsum(s)
CumSum(s) == [k \in 1..Len(s) |-> SumSeq(SubSeq(s, 1, k))]

\* spike_times[:-1]
AllButLast(s) == SubSeq(s, 1, Len(s) - 1)

\* T0 + s, elementwise
Shift(T0, s) == [k \in 1..Len(s) |-> Add(T0, s[k])]

\* np.delete(s, np.where(s < 0)[0])
RECURSIVE DeleteNegative(_)
DeleteNegative(s) ==
    IF s = <<>> THEN <<>>
    ELSE IF Head(s) < 0 THEN DeleteNegative(Tail(s))
    ELSE <<Head(s)>> \o DeleteNegative(Tail(s))

\* np.max(num_spikes) of a non-empty list
MaxOf(s) == CHOOSE m \in Range(s) : \A x \in Range(s) : x <= m

\* s_k_pad = np.full((len(rates), np.max(num_spikes)), np.inf);
\* for j, (n, s) in enumerate(zip(num_spikes, s_k)): s_k_pad[j, :n] = s
Pad(s_k) ==
    LET width == MaxOf([j \in 1..Len(s_k) |-> Len(s_k[j])])
    IN  [j \in 1..Len(s_k) |->
           [c \in 1..width |-> IF c <= Len(s_k[j]) THEN s_k[j][c] ELSE Inf]]

\* sin(2*pi*mod_freq*t/1000 + pi/2) for mod_freq = 25 Hz at the times t that
\* are multiples of 10 ms: the cosine at whole quarter periods
QuarterCos(t) == <<1, 0, -1, 0>>[((t \div 10) % 4) + 1]

\* FR = rate1*np.sin(2*np.pi*mod_freq*t/1000 + np.pi/2) + rate1 over
\* t = np.arange(T0, T+t_win, t_win)
ModulatedFR(rate1, T0, T, t_win) ==
    LET t == Arange(T0, T + t_win, t_win)
    IN  [k \in 1..Len(t) |-> rate1 * QuarterCos(t[k]) + rate1]

RateSeqFns == {"build_rate_seq", "build_rate_seq_modulated"}

Subsequences(vals, n) == UNION {[1..m -> vals] : m \in 0..n}

PoissonArgs ==
    [FR : Subsequences(RateVals, MaxRates), t_win : {10}, tstop : {0, 10, 20}]

RateSeqArgs ==
    UNION {
      [rates : [1..m -> RateVals], T0 : {T0}, T : {20},
       mod_freq : {0, 25}, mod_list : SUBSET (0..(m - 1)), t_win : {10}] :
      <<m, T0>> \in (0..MaxSynapses) \X {0, 10}}

RateSeqLocals ==
    [i |-> 0, spike_times |-> <<>>, s_k |-> <<>>,
     FR |-> <<>>, tstop |-> 0, t_squ |-> <<>>, w |-> 0, t_spike |-> 0,
     spike_train |-> <<>>]

PoissonInit ==
    /\ fn = "gen_poisson_spikes"
    /\ pc = "L203"
    /\ args \in PoissonArgs
    /\ loc = [RateSeqLocals EXCEPT !.FR = args.FR, !.tstop = args.tstop]
    /\ ret = NoRet

RateSeqInit ==
    /\ fn \in RateSeqFns
    /\ pc = "row"
    /\ args \in RateSeqArgs
    /\ fn = "build_rate_seq" => (args.mod_freq = 0 /\ args.mod_list = {})
    /\ loc = RateSeqLocals
    /\ ret = NoRet

\* ---- gen_poisson_spikes ----

\* t_squ = np.arange(0, tstop+t_win, t_win); spike_train = [];
\* if FR.size < t_squ.size - 1: warnings.warn(...): the module never imports
\* warnings, so the name lookup raises NameError
PoissonWindows ==
    /\ pc = "L203"
    /\ LET t_squ == Arange(0, loc.tstop + args.t_win, args.t_win)
       IN  IF Len(loc.FR) < Len(t_squ) - 1
           THEN /\ ret' = Raise("NameError")
                /\ pc' = "done"
                /\ UNCHANGED loc
           ELSE /\ loc' = [loc EXCEPT !.t_squ = t_squ, !.spike_train = <<>>,
                                      !.w = 0]
                /\ pc' = "L208"
                /\ UNCHANGED ret
    /\ UNCHANGED <<fn, args>>

\* the number of turns of: for i, fr in zip(range(t_squ.size - 1), FR)
PoissonTurns ==
    IF Len(loc.t_squ) - 1 < Len(loc.FR)
    THEN (IF Len(loc.t_squ) - 1 < 0 THEN 0 ELSE Len(loc.t_squ) - 1)
    ELSE Len(loc.FR)

\* the head of a turn: t_spike = t_squ[i]; if fr <= 0: continue
PoissonWindow ==
    /\ pc = "L208"
    /\ loc.w < PoissonTurns
    /\ IF loc.FR[loc.w + 1] <= 0
       THEN /\ loc' = [loc EXCEPT !.t_spike = loc.t_squ[loc.w + 1],
                                  !.w = loc.w + 1]
            /\ pc' = "L208"
       ELSE /\ loc' = [loc EXCEPT !.t_spike = loc.t_squ[loc.w + 1]]
            /\ pc' = "L212"
    /\ UNCHANGED <<fn, args, ret>>

\* while t_spike < t_squ[i + 1]: a = np.random.exponential(1 / fr);
\* t_spike = t_spike + a;
\* if (t_spike < t_squ[i + 1]) & (a > 0): spike_train.append(t_spike)
PoissonDraw ==
    /\ pc = "L212"
    /\ loc.t_spike < loc.t_squ[loc.w + 2]
    /\ \E a \in Gaps :
          loc' = [loc EXCEPT
                    !.t_spike = loc.t_spike + a,
                    !.spike_train =
                       IF loc.t_spike + a < loc.t_squ[loc.w + 2] /\ a > 0
                       THEN Append(loc.spike_train, loc.t_spike + a)
                       ELSE loc.spike_train]
    /\ UNCHANGED <<fn, pc, args, ret>>

\* the while loop ends and the for loop goes on to the next window
PoissonWindowEnd ==
    /\ pc = "L212"
    /\ loc.t_spike >= loc.t_squ[loc.w + 2]
    /\ loc' = [loc EXCEPT !.w = loc.w + 1]
    /\ pc' = "L208"
    /\ UNCHANGED <<fn, args, ret>>

\* spike_train = np.asarray(spike_train); return spike_train (to the caller
\* of gen_poisson_spikes, or to line 276 or 295 of build_rate_seq_modulated)
PoissonReturn ==
    /\ pc = "L208"
    /\ loc.w >= PoissonTurns
    /\ IF fn = "gen_poisson_spikes"
       THEN /\ ret' = Value(loc.spike_train)
            /\ pc' = "done"
            /\ UNCHANGED loc
       ELSE /\ loc' = [loc EXCEPT !.spike_times = loc.spike_train]
            /\ pc' = "L279"
            /\ UNCHANGED ret
    /\ UNCHANGED <<fn, args>>

PoissonNext ==
    \/ PoissonWindows
    \/ PoissonWindow
    \/ PoissonDraw
    \/ PoissonWindowEnd
    \/ PoissonReturn

SpecPoisson == PoissonInit /\ [][PoissonNext]_vars

\* ---- build_rate_seq and build_rate_seq_modulated ----

\* the synapse of this turn takes the sinusoidal branch (lines 273-281 and
\* 292-300): mod_freq is not 0 and the synapse is in mod_list, or mod_list
\* is empty
Sinusoidal ==
    /\ fn = "build_rate_seq_modulated"
    /\ args.mod_freq # 0
    /\ (args.mod_list = {} \/ loc.i \in args.mod_list)

\* if rate > 0: spike_times = [np.random.exponential(1/rate)]
\* else: spike_times = [np.inf]
RateSeqFirst ==
    /\ fn \in RateSeqFns /\ pc = "row"
    /\ loc.i < Len(args.rates)
    /\ ~Sinusoidal
    /\ IF args.rates[loc.i + 1] > 0
       THEN \E a \in Gaps : loc' = [loc EXCEPT !.spike_times = <<a>>]
       ELSE loc' = [loc EXCEPT !.spike_times = <<Inf>>]
    /\ pc' = "while"
    /\ UNCHANGED <<fn, args, ret>>

\* while sum(spike_times) < T - T0:
\*     spike_times.append(np.random.exponential(1/rate))
RateSeqWhile ==
    /\ fn \in RateSeqFns /\ pc = "while"
    /\ SumSeq(loc.spike_times) < args.T - args.T0
    /\ Len(loc.spike_times) < MaxDraws
    /\ \E a \in Gaps :
          loc' = [loc EXCEPT !.spike_times = Append(loc.spike_times, a)]
    /\ UNCHANGED <<fn, pc, args, ret>>

\* s_k.append(T0 + np.cumsum(spike_times[:-1]))
RateSeqRow ==
    /\ fn \in RateSeqFns /\ pc = "while"
    /\ ~(SumSeq(loc.spike_times) < args.T - args.T0)
    /\ loc' = [loc EXCEPT
                 !.s_k = Append(loc.s_k,
                                Shift(args.T0, CumSum(AllButLast(loc.spike_times)))),
                 !.i = loc.i + 1]
    /\ pc' = "row"
    /\ UNCHANGED <<fn, args, ret>>

\* if rate > 0: rate1 = ...; FR = rate1*np.sin(...) + rate1;
\*     spike_times = gen_poisson_spikes(FR, t_win, dt, T - T0)
\* (rate1 is rate times a positive factor, mod_amp or mod_amp/sqrt(2); only
\* the sign of FR is read, so the factor is left out)
\* else: spike_times = [np.inf], a list, and the next line compares it with
\*     0 (spike_times < 0), which raises TypeError
ModulatedSynapse ==
    /\ fn = "build_rate_seq_modulated" /\ pc = "row"
    /\ loc.i < Len(args.rates)
    /\ Sinusoidal
    /\ IF args.rates[loc.i + 1] > 0
       THEN /\ loc' = [loc EXCEPT
                         !.FR = ModulatedFR(args.rates[loc.i + 1], args.T0, args.T,
                                            args.t_win),
                         !.tstop = args.T - args.T0]
            /\ pc' = "L203"
            /\ UNCHANGED ret
       ELSE /\ ret' = Raise("TypeError")
            /\ pc' = "done"
            /\ UNCHANGED loc
    /\ UNCHANGED <<fn, args>>

\* spike_times = np.delete(spike_times, np.where(spike_times<0)[0]);
\* spike_times = np.sort(spike_times, axis=None); s_k.append(T0 + spike_times)
ModulatedRow ==
    /\ fn = "build_rate_seq_modulated" /\ pc = "L279"
    /\ loc' = [loc EXCEPT
                 !.s_k = Append(loc.s_k,
                                Shift(args.T0, SortRow(DeleteNegative(loc.spike_times)))),
                 !.i = loc.i + 1]
    /\ pc' = "row"
    /\ UNCHANGED <<fn, args, ret>>

\* num_spikes = [len(s) for s in s_k]; s_k_pad = np.full(...); ...;
\* return s_k_pad.  np.max of an empty list raises ValueError
RateSeqPad ==
    /\ fn \in RateSeqFns /\ pc = "row"
    /\ loc.i >= Len(args.rates)
    /\ ret' = IF loc.s_k = <<>> THEN Raise("ValueError") ELSE Value(Pad(loc.s_k))
    /\ pc' = "done"
    /\ UNCHANGED <<fn, args, loc>>

RateSeqNext ==
    \/ RateSeqFirst
    \/ RateSeqWhile
    \/ RateSeqRow
    \/ ModulatedSynapse
    \/ ModulatedRow
    \/ RateSeqPad
    \/ PoissonNext

SpecRateSeq == RateSeqInit /\ [][RateSeqNext]_vars

\* C1: in every row of a padded ensemble returned by build_rate_seq or by
\* build_rate_seq_modulated, the finite entries are sorted ascending and
\* every finite entry precedes every +infinity sentinel.
C1_PaddedRowsSorted ==
    (fn \in RateSeqFns /\ Returned) =>
        \A j \in DOMAIN ret.val :
            \A a \in DOMAIN ret.val[j], b \in DOMAIN ret.val[j] :
                a < b =>
                    /\ (IsFinite(ret.val[j][a]) /\ IsFinite(ret.val[j][b]))
                          => ret.val[j][a] <= ret.val[j][b]
                    /\ IsFinite(ret.val[j][b]) => IsFinite(ret.val[j][a])

\* build_rate_seq_modulated has returned, with a modulation frequency and a
\* list of modulated synapses, two rows: one of them holds two different
\* spike times, the other a spike time followed by a sentinel
C1_Witness ==
    /\ fn = "build_rate_seq_modulated" /\ Returned
    /\ args.mod_freq # 0 /\ args.mod_list = {0}
    /\ Len(ret.val) = 2
    /\ \E j \in {1, 2} :
          /\ Width(ret.val) >= 2
          /\ IsFinite(ret.val[j][2]) /\ ret.val[j][1] < ret.val[j][2]
          /\ IsFinite(ret.val[3 - j][1]) /\ ~IsFinite(ret.val[3 - j][2])

\* C8: when gen_poisson_spikes gets fewer rate values than the windows that
\* cover [0, tstop], it does not fail: it returns, and the spikes it returns
\* are those of the supplied windows (none after the last supplied window).
C8_PoissonShortRatesReturn ==
    (fn = "gen_poisson_spikes" /\ pc = "done"
       /\ Len(args.FR) < ArangeLen(0, args.tstop + args.t_win, args.t_win) - 1) =>
        /\ Returned
        /\ \A k \in 1..Len(ret.val) : ret.val[k] < Len(args.FR) * args.t_win

\* the synapses (rows, counted from 1) whose rate is exactly 0
ZeroRateRows == {j \in DOMAIN args.rates : args.rates[j] = 0}

\* C11: a call of build_rate_seq or of build_rate_seq_modulated (mod_freq
\* zero or not, the synapse in mod_list or not) that has a synapse of rate
\* exactly 0 returns normally, and the row of every such synapse in the
\* padded output holds no finite entry: it is all +infinity.
C11_ZeroRateEmptyRow ==
    (fn \in RateSeqFns /\ pc = "done" /\ ZeroRateRows # {}) =>
        /\ Returned
        /\ \A j \in ZeroRateRows :
             \A c \in DOMAIN ret.val[j] : ~IsFinite(ret.val[j][c])

(***************************************************************************)
(* PreSyn.rate and PreSyn.spike_train (rejection sampling)                 *)
(*                                                                         *)
(* Rates are counted in units of 1e-3 per ms, so that 1e-3*r_0 is r_0.     *)
(* s is sN/MaxMix.  The Gaussian of gauss_spike_time is taken for          *)
(* sigma = 1 ms at whole milliseconds, in units of 1/GaussScale.  To stay  *)
(* in the integers every rate is multiplied by                             *)
(* len(spike_times) * MaxMix * GaussScale.                                 *)
(***************************************************************************)

MaxMix == 2
MaxCandidates == 1
MaxCenters == 2

\* the fixed point of the kernel values: 1e-3
GaussScale == 1000

\* T = max(t_off, stim_off+200)
HorizonPad == 200

\* 1/(2*pi*sigma**2)**0.5 * exp(-(t - t_k)**2/(2*sigma**2)) for sigma = 1,
\* times GaussScale and rounded
Gauss(d) ==
    LET a == IF d < 0 THEN 0 - d ELSE d
    IN  IF a >= 4 THEN 0 ELSE <<399, 242, 54, 4>>[a + 1]

\* gauss_spike_time(t, spike_times, sigma) for one time t
RECURSIVE GaussSpikeTime(_, _)
GaussSpikeTime(t, spike_times) ==
    IF spike_times = <<>> THEN 0
    ELSE Gauss(t - Head(spike_times)) + GaussSpikeTime(t, Tail(spike_times))

\* the common factor of the scaled rates
RateUnit(a) == Len(a.spike_times) * MaxMix * GaussScale

\* PreSyn.rate at one time t, times RateUnit
Rate(t, a) ==
    LET n == Len(a.spike_times)
    IN  (IF t >= a.t_on /\ t < a.t_off THEN RateUnit(a) * a.r_0 ELSE 0)
      + (IF t >= a.stim_on /\ t < a.stim_off
         THEN n * (MaxMix - a.sN) * GaussScale * a.r ELSE 0)
      + (IF a.t_off <= a.stim_off /\ t >= a.stim_off
         THEN RateUnit(a) * a.r_0 ELSE 0)
      + (IF a.r > 0 /\ a.sN * n > 0
         THEN a.r * (a.stim_off - a.stim_on) * a.sN
                  * GaussSpikeTime(t, a.spike_times)
         ELSE 0)

\* r_max of spike_train, times RateUnit: the kernel taken at the peak of a
\* single bump, gauss_spike_time(np.array([0]), np.array([0]), sigma)[0]
RMax(a) ==
    LET n == Len(a.spike_times)
    IN  IF a.sN * n > 0
        THEN RateUnit(a) * a.r_0
               + n * (MaxMix - a.sN) * GaussScale * a.r
               + a.r * (a.stim_off - a.stim_on) * a.sN * GaussSpikeTime(0, <<0>>)
        ELSE RateUnit(a) * (a.r_0 + a.r)

\* max(t_off, stim_off+200)
Horizon(a) ==
    IF a.t_off >= a.stim_off + HorizonPad THEN a.t_off ELSE a.stim_off + HorizonPad

SpikeTrainArgs ==
    UNION {
      [r_0 : {0, 5}, r : {0, 10}, sN : 0..MaxMix,
       t_on : {0}, t_off : {5, 250},
       stim_on : {w[1]}, stim_off : {w[2]},
       spike_times : UNION {[1..m -> {3, 5}] : m \in 1..MaxCenters}] :
      w \in {<<0, 10>>, <<2, 6>>}}

SpikeTrainInit ==
    /\ fn = "spike_train"
    /\ pc = "L92"
    /\ args \in SpikeTrainArgs
    /\ loc = [r_max |-> 0, T |-> 0, train |-> <<>>]
    /\ ret = NoRet

\* if s*len(spike_times) > 0: r_max = ... else: r_max = 1e-3*self.r_0 + r;
\* T = max(t_off, stim_off+200)
SpikeTrainBound ==
    /\ fn = "spike_train" /\ pc = "L92"
    /\ loc' = [loc EXCEPT !.r_max = RMax(args), !.T = Horizon(args)]
    /\ pc' = "L99"
    /\ UNCHANGED <<fn, args, ret>>

\* num_spikes = np.random.poisson(r_max*(T - t_on));
\* train = np.random.uniform(t_on, T, num_spikes)
SpikeTrainCandidates ==
    /\ fn = "spike_train" /\ pc = "L99"
    /\ \E num_spikes \in 0..(IF loc.r_max > 0 /\ loc.T - args.t_on > 0
                             THEN MaxCandidates ELSE 0) :
          \E train \in [1..num_spikes -> args.t_on..(loc.T - 1)] :
             loc' = [loc EXCEPT !.train = train]
    /\ pc' = "L101"
    /\ UNCHANGED <<fn, args, ret>>

\* accept = np.where(self.rate(train, ...)/r_max >= np.random.rand(num_spikes))[0];
\* train = train[accept], with each rand drawn from {0, 1/2}
SpikeTrainAccept ==
    /\ fn = "spike_train" /\ pc = "L101"
    /\ \E rand2 \in [1..Len(loc.train) -> {0, 1}] :
          LET accept == {k \in 1..Len(loc.train) :
                            2 * Rate(loc.train[k], args) >= rand2[k] * loc.r_max}
              pick[k \in 0..Len(loc.train)] ==
                  IF k = 0 THEN <<>>
                  ELSE IF k \in accept THEN Append(pick[k - 1], loc.train[k])
                  ELSE pick[k - 1]
          IN  loc' = [loc EXCEPT !.train = pick[Len(loc.train)]]
    /\ pc' = "L105"
    /\ UNCHANGED <<fn, args, ret>>

\* train.sort(); return train
SpikeTrainReturn ==
    /\ fn = "spike_train" /\ pc = "L105"
    /\ ret' = Value(SortRow(loc.train))
    /\ pc' = "done"
    /\ UNCHANGED <<fn, args, loc>>

SpikeTrainNext ==
    \/ SpikeTrainBound
    \/ SpikeTrainCandidates
    \/ SpikeTrainAccept
    \/ SpikeTrainReturn

SpecSpikeTrain == SpikeTrainInit /\ [][SpikeTrainNext]_vars

\* C2: with rates >= 0, s in [0,1], t_on <= t_off, stim_on <= stim_off and
\* non-empty spike_times, the acceptance ratio rate(t)/r_max of every
\* candidate time t drawn in [t_on, T) is at most 1.
C2_AcceptanceAtMostOne ==
    (fn = "spike_train" /\ pc = "L101") =>
        \A k \in 1..Len(loc.train) : Rate(loc.train[k], args) <= loc.r_max

====
